---- MODULE Spec2Model ----
(***************************************************************************)
(* TabTidy: LinkTidy.process_bookmarks, check_url and remove_empty_folders *)
(* (src/tabtidy.py) as a state machine.                                    *)
(*                                                                         *)
(* The bookmark document is modelled as the tree of its <dt> elements: a   *)
(* folder is a <dt> holding an <h3> and a <dl>, a link is a <dt> holding   *)
(* an <a>. Node 0 is the main <dl>, the child of <body>. Nodes are         *)
(* numbered in document order (pre-order), which is the order find_all     *)
(* returns them in. This is the document shape the code is written for:    *)
(* the main <dl> directly under <body> (line 314), a folder's <dl> inside  *)
(* its <dt> (line 320), every <a> inside a <dt> of its own (line 264).     *)
(*                                                                         *)
(* The pool is modelled by the requests its workers hold: a worker takes   *)
(* the oldest request not yet taken (TakeTask) and later returns from      *)
(* check_url with the answer the network gave (CompleteProbe); completions *)
(* happen in any order. The apply loop and every compaction pass advance   *)
(* one element per step.                                                   *)
(***************************************************************************)
EXTENDS Integers, Sequences, FiniteSets, TLC

VARIABLES
    soup,               \* the parsed input document (never mutated)
    max_workers,        \* LinkTidy.max_workers
    pc,                 \* position inside process_bookmarks
    total_bookmarks,    \* LinkTidy.total_bookmarks
    valid_bookmarks,    \* LinkTidy.valid_bookmarks
    deleted_bookmarks,  \* LinkTidy.deleted_bookmarks
    new_soup,           \* the working copy: container -> sequence of children
    urls_to_check,      \* the requests, in document order
    next_task,          \* index of the first request no worker has taken yet
    running,            \* indices of the requests a worker is executing
    futures,            \* request index -> result of its check_url call
    net_requests,       \* the session.get calls made: request, URL, answer
    check_results,      \* list(executor.map(...))
    valid_urls,         \* the set of raw URLs with a valid verdict
    invalid_links,      \* the apply loop's counter
    a_tags,             \* the list new_soup.find_all('a') the apply loop walks
    a_idx,              \* position of the apply loop in a_tags
    iteration,          \* remove_empty_folders: the pass number, from 0
    folders,            \* remove_empty_folders: the candidates of the pass
    f_idx,              \* position of the pass in folders
    empty_folder_count, \* remove_empty_folders: folders removed so far
    output_file,        \* the document clean_bookmarks wrote, NoFile before
    exit_code,          \* exit status of the process, NotExited while it runs
    run                 \* number of the invocation of the program, from 1

vars == <<soup, max_workers, pc, total_bookmarks, valid_bookmarks,
          deleted_bookmarks, new_soup, urls_to_check, next_task, running,
          futures, net_requests, check_results, valid_urls, invalid_links,
          a_tags, a_idx, iteration, folders, f_idx, empty_folder_count,
          output_file, exit_code, run>>

----------------------------------------------------------------------------
(* Bounds of the model. *)

MaxNodes == 4       \* <dt> elements of the input document
MaxLinks == 2       \* of which links
MaxWorkers == 2     \* worker counts 1..MaxWorkers are explored

(* Program constants. *)

MaxPasses == 3      \* range(3) in remove_empty_folders
StatusOkLow == 200  \* 200 <= status_code < 400
StatusOkHigh == 400

----------------------------------------------------------------------------
(* URLs. A URL string is kept as its parts, in the order they are written: *)
(* scheme prefix, userinfo, host, port and path. Two URLs are the same     *)
(* string exactly when all parts agree.                                    *)

NoHref == [scheme |-> "-", userinfo |-> "-", host |-> "-", port |-> "-", path |-> "-"]

Schemes == {"", "http://", "https://"}
Userinfos == {"", "user@"}
Hosts == {"", "a.org", "8.8.8.8", "10.1", "127.0.0.1", "10.0.0.5",
          "192.168.1.1", "localhost", "mylocalhost.net", "[::1"}
Ports == {"", ":8080"}
Paths == {"", "/p", "/xxx"}

AllURLs == [scheme : Schemes, userinfo : Userinfos, host : Hosts,
            port : Ports, path : Paths]

Url(s, u, h, p, q) == [scheme |-> s, userinfo |-> u, host |-> h, port |-> p, path |-> q]

(* The URLs the whole-run specification draws hrefs from. *)
RunURLs == { Url("", "", "a.org", "", ""),
             Url("https://", "", "a.org", "", ""),
             Url("http://", "", "127.0.0.1", ":8080", "") }

(* url.startswith(('http://', 'https://')) *)
HasHttpPrefix(url) == url.scheme \in {"http://", "https://"}

(* check_url with the prefix step left out *)
AddPrefixForgotten(url) == url

(* 'https://' + url when the prefix is missing *)
AddPrefix(url) == IF HasHttpPrefix(url) THEN url ELSE [url EXCEPT !.scheme = "https://"]

(* urlparse(url) raises ValueError("Invalid IPv6 URL") for an unbalanced '[' *)
ParseRaises(url) == url.host = "[::1"

(* parsed.netloc is userinfo + host + port; all([scheme, netloc]) *)
NetlocEmpty(url) == url.userinfo = "" /\ url.host = "" /\ url.port = ""
HasSchemeAndNetloc(url) == HasHttpPrefix(url) /\ ~NetlocEmpty(url)

(* parsed.netloc.split(':')[0]: the port is cut off, the userinfo is not *)
Domain(url) == [userinfo |-> url.userinfo, host |-> url.host]

(* Facts about the host strings of Hosts. *)
DottedDigitHosts == {"8.8.8.8", "10.1", "127.0.0.1", "10.0.0.5", "192.168.1.1"}
ValidIPv4Hosts == {"8.8.8.8", "127.0.0.1", "10.0.0.5", "192.168.1.1"}
PrivateOrLoopbackIPs == {"127.0.0.1", "10.0.0.5", "192.168.1.1"}
DenylistedSubstringHosts == {"localhost", "mylocalhost.net"}

(* The hosts the safety rule is about. *)
UnsafeHosts == {"127.0.0.1", "10.0.0.5", "192.168.1.1", "localhost", "mylocalhost.net"}

_is_unsafe_domain(domain) ==
    IF domain.userinfo = "" /\ domain.host \in {"localhost", "127.0.0.1"}
    THEN TRUE
    ELSE IF /\ domain.userinfo = ""
            /\ domain.host \in DottedDigitHosts
            /\ domain.host \in ValidIPv4Hosts
         THEN domain.host \in PrivateOrLoopbackIPs
         ELSE domain.host \in DenylistedSubstringHosts

(* any(keyword in url.lower() for keyword in invalid_keywords) *)
ContainsKeyword(url) == url.path = "/xxx"

----------------------------------------------------------------------------
(* The answer of the network to one session.get call: a final status code, *)
(* or an exception raised by the call or by response.raw.read.             *)

StatusCodes == {199, 200, 301, 399, 400, 404, 500}

ExcClasses == {"ReadTimeout", "ConnectTimeout", "TooManyRedirects", "SSLError",
               "ConnectionError", "InvalidURL", "ProtocolError"}

(* The classes an exception is an instance of (requests.exceptions; the    *)
(* urllib3 ProtocolError of raw.read is no RequestException).              *)
Supers(exc) ==
    CASE exc = "ReadTimeout" -> {"ReadTimeout", "Timeout", "RequestException", "Exception"}
      [] exc = "ConnectTimeout" -> {"ConnectTimeout", "ConnectionError", "Timeout",
                                    "RequestException", "Exception"}
      [] exc = "TooManyRedirects" -> {"TooManyRedirects", "RequestException", "Exception"}
      [] exc = "SSLError" -> {"SSLError", "ConnectionError", "RequestException", "Exception"}
      [] exc = "ConnectionError" -> {"ConnectionError", "RequestException", "Exception"}
      [] exc = "InvalidURL" -> {"InvalidURL", "RequestException", "Exception"}
      [] exc = "ProtocolError" -> {"ProtocolError", "Exception"}
      [] exc = "ValueError" -> {"ValueError", "Exception"}

NetOutcomes == {[status |-> c, exc |-> "None"] : c \in StatusCodes}
               \cup {[status |-> 0, exc |-> e] : e \in ExcClasses}

(* The answers the whole-run specification draws from. *)
RunOutcomes == {[status |-> 200, exc |-> "None"], [status |-> 0, exc |-> "ReadTimeout"]}

(* The except clauses of the inner try, in order: class caught, reason. *)
InnerHandlers == << <<"Timeout", "Timeout">>,
                    <<"TooManyRedirects", "TooManyRedirects">>,
                    <<"SSLError", "SSLError">>,
                    <<"ConnectionError", "ConnectionError">>,
                    <<"RequestException", "RequestException">> >>

(* check_url without its outer except clause *)
NoOuterHandler == <<>>

(* The except clause of the outer try. *)
OuterHandlers == << <<"Exception", "Unexpected">> >>

(* The reason of the first clause of handlers that catches exc, "Raise" if none does. *)
RECURSIVE Catch(_, _)
Catch(handlers, exc) ==
    IF handlers = <<>> THEN "Raise"
    ELSE IF Head(handlers)[1] \in Supers(exc) THEN Head(handlers)[2]
    ELSE Catch(Tail(handlers), exc)

NoReason == [tag |-> "None", code |-> 0]
Reason(tag) == [tag |-> tag, code |-> 0]

(* _add_to_deleted losing the record *)
AddToDeletedLost(title, url, reason) == <<>>

(* _add_to_deleted appending the record twice *)
AddToDeletedTwice(title, url, reason) ==
    << [title |-> title, url |-> url, reason |-> reason],
       [title |-> title, url |-> url, reason |-> reason] >>

(* self._add_to_deleted(title, url, reason): the record appended *)
_add_to_deleted(title, url, reason) == << [title |-> title, url |-> url, reason |-> reason] >>

(* What one check_url call does: the verdict it returns (url, valid), the  *)
(* records it appends to deleted_bookmarks, whether it called session.get, *)
(* and whether it left by an exception instead of returning.               *)
Returns(url, valid, appended, requested) ==
    [url |-> url, valid |-> valid, appended |-> appended,
     requested |-> requested, raised |-> FALSE]

Raises(url, requested) ==
    [url |-> url, valid |-> FALSE, appended |-> <<>>,
     requested |-> requested, raised |-> TRUE]

(* An exception exc leaving the inner try (or raised outside it), seen by the outer try. *)
OuterExcept(url, title, exc, requested) ==
    LET r == Catch(OuterHandlers, exc)
    IN  IF r = "Raise" THEN Raises(url, requested)
        ELSE Returns(url, FALSE, _add_to_deleted(title, url, Reason(r)), requested)

(* Step 5: the GET and its except clauses. *)
ProbeNetwork(url, title, net) ==
    IF net.exc = "None"
    THEN LET is_valid == StatusOkLow <= net.status /\ net.status < StatusOkHigh
         IN  IF is_valid
             THEN Returns(url, TRUE, <<>>, TRUE)
             ELSE Returns(url, FALSE,
                          _add_to_deleted(title, url, [tag |-> "BadStatus", code |-> net.status]),
                          TRUE)
    ELSE LET r == Catch(InnerHandlers, net.exc)
         IN  IF r = "Raise" THEN OuterExcept(url, title, net.exc, TRUE)
             ELSE Returns(url, FALSE, _add_to_deleted(title, url, Reason(r)), TRUE)

check_url(raw, title, net) ==
    LET url == AddPrefix(raw)
    IN  IF ParseRaises(url) THEN OuterExcept(url, title, "ValueError", FALSE)
        ELSE IF ~HasSchemeAndNetloc(url)
             THEN Returns(url, FALSE, _add_to_deleted(title, url, Reason("InvalidFormat")), FALSE)
        ELSE IF _is_unsafe_domain(Domain(url))
             THEN Returns(url, FALSE, _add_to_deleted(title, url, Reason("UnsafeTarget")), FALSE)
        ELSE IF ContainsKeyword(url)
             THEN Returns(url, FALSE, _add_to_deleted(title, url, Reason("ProhibitedContent")), FALSE)
        ELSE ProbeNetwork(url, title, net)

----------------------------------------------------------------------------
(* Documents. kind, parent and href describe the <dt> elements 1..n; the   *)
(* children of a container are kept in document order.                     *)

Range(seq) == {seq[i] : i \in 1..Len(seq)}

RECURSIVE AncOrSelf(_, _)
AncOrSelf(parent, i) ==
    IF i = 0 THEN {} ELSE {i} \cup AncOrSelf(parent, parent[i])

(* kind and parent number a tree of n elements in pre-order *)
WellFormed(n, kind, parent) ==
    \A i \in 1..n :
        /\ parent[i] < i
        /\ parent[i] # 0 => kind[parent[i]] = "folder"
        /\ parent[i] # 0 => parent[i] \in AncOrSelf(parent, i - 1)

Shapes(n) ==
    {sh \in [kind : [1..n -> {"folder", "link"}], parent : [1..n -> 0..(n - 1)]] :
        /\ WellFormed(n, sh.kind, sh.parent)
        /\ Cardinality({i \in 1..n : sh.kind[i] = "link"}) <= MaxLinks}

LinksOf(n, sh) == {i \in 1..n : sh.kind[i] = "link"}

Document(n, sh, hrefs) ==
    [n |-> n, kind |-> sh.kind, parent |-> sh.parent,
     href |-> [i \in 1..n |-> IF sh.kind[i] = "link" THEN hrefs[i] ELSE NoHref],
     title |-> [i \in 1..n |-> i]]

(* no document: nothing has been written to the output path *)
NoFile == [n |-> -1, kind |-> <<>>, parent |-> <<>>, href |-> <<>>, title |-> <<>>]

(* the process has not ended *)
NotExited == -1

(* The input documents of the whole-run specification. *)
RunDocuments ==
    UNION { UNION { {Document(n, sh, hrefs) : hrefs \in [LinksOf(n, sh) -> RunURLs \cup {NoHref}]}
                    : sh \in Shapes(n) }
            : n \in 1..MaxNodes }

RECURSIVE Ascending(_, _, _)
Ascending(S, lo, hi) ==
    IF lo > hi THEN <<>>
    ELSE IF lo \in S THEN <<lo>> \o Ascending(S, lo + 1, hi)
    ELSE Ascending(S, lo + 1, hi)

(* BeautifulSoup(str(soup), PARSER): container -> its children, in order *)
CopyOf(doc) ==
    [c \in 0..doc.n |-> Ascending({i \in 1..doc.n : doc.parent[i] = c}, 1, doc.n)]

NoTree(doc) == [c \in 0..doc.n |-> <<>>]

(* find_all: the elements below the children list seq, in document order *)
RECURSIVE Walk(_, _)
Walk(t, seq) ==
    IF seq = <<>> THEN <<>>
    ELSE <<Head(seq)>> \o Walk(t, t[Head(seq)]) \o Walk(t, Tail(seq))

IsLink(n) == soup.kind[n] = "link"
IsFolder(n) == soup.kind[n] = "folder"

(* a_tag has an href attribute *)
HasHref(n) == IsLink(n) /\ soup.href[n] # NoHref

(* a_tag.string: every link carries its own title *)
Title(n) == soup.title[n]

(* soup.find_all('a') / new_soup.find_all('a') *)
FindAllA(t) == SelectSeq(Walk(t, t[0]), IsLink)

(* removal that fills the hole with the last sibling instead of closing it *)
DecomposeSwapRemove(t, n) ==
    [c \in DOMAIN t |->
        IF c # 0 /\ n \in AncOrSelf(soup.parent, c) THEN <<>>
        ELSE IF n \in Range(t[c])
             THEN LET k == CHOOSE j \in 1..Len(t[c]) : t[c][j] = n
                  IN  SubSeq([t[c] EXCEPT ![k] = t[c][Len(t[c])]], 1, Len(t[c]) - 1)
             ELSE t[c]]

(* tag.decompose(): n and everything below it leave the tree *)
Decompose(t, n) ==
    [c \in DOMAIN t |->
        IF c # 0 /\ n \in AncOrSelf(soup.parent, c) THEN <<>>
        ELSE SelectSeq(t[c], LAMBDA x : x # n)]

----------------------------------------------------------------------------
(* process_bookmarks: collecting the requests. *)

Pending == [done |-> FALSE, url |-> NoHref, valid |-> FALSE, raised |-> FALSE]

(* the (url, title, a_tag) triples of the links that have an href *)
RECURSIVE Requests(_)
Requests(links) ==
    IF links = <<>> THEN <<>>
    ELSE IF HasHref(Head(links))
         THEN << [url |-> soup.href[Head(links)], title |-> Title(Head(links)),
                  node |-> Head(links)] >> \o Requests(Tail(links))
         ELSE Requests(Tail(links))

RunInit ==
    /\ soup \in RunDocuments
    /\ max_workers \in 1..MaxWorkers
    /\ pc = "start"
    /\ total_bookmarks = 0
    /\ valid_bookmarks = 0
    /\ deleted_bookmarks = <<>>
    /\ new_soup = NoTree(soup)
    /\ urls_to_check = <<>>
    /\ next_task = 1
    /\ running = {}
    /\ futures = <<>>
    /\ net_requests = {}
    /\ check_results = <<>>
    /\ valid_urls = {}
    /\ invalid_links = 0
    /\ a_tags = <<>>
    /\ a_idx = 1
    /\ iteration = 0
    /\ folders = <<>>
    /\ f_idx = 1
    /\ empty_folder_count = 0
    /\ output_file = NoFile
    /\ exit_code = NotExited
    /\ run = 1

Init == RunInit

(* the branch taken whatever was collected *)
HasRequestsAlways(reqs) == TRUE

(* if urls_to_check: *)
HasRequests(reqs) == reqs # <<>>

CollectLinks ==
    /\ pc = "start"
    /\ LET all_links == FindAllA(CopyOf(soup))
           reqs == Requests(all_links)
       IN  /\ total_bookmarks' = Len(all_links)
           /\ new_soup' = CopyOf(soup)
           /\ urls_to_check' = reqs
           /\ futures' = [i \in 1..Len(reqs) |-> Pending]
           /\ pc' = IF HasRequests(reqs) THEN "probing" ELSE "done"
    /\ UNCHANGED <<output_file, exit_code, run>>
    /\ UNCHANGED <<soup, max_workers, valid_bookmarks, deleted_bookmarks, next_task,
                   running, net_requests, check_results, valid_urls, invalid_links,
                   a_tags, a_idx, iteration, folders, f_idx, empty_folder_count>>

----------------------------------------------------------------------------
(* The pool: executor.map submits every request at once; an idle worker    *)
(* takes the oldest request not taken yet, and calls check_url on it.      *)

(* a pool with one idle worker too few: the last worker never takes a request *)
HasIdleWorkerButOne(busy, workers) == Cardinality(busy) < workers - 1

(* a pool that starts one worker more than max_workers *)
HasIdleWorkerOneMore(busy, workers) == Cardinality(busy) <= workers

(* ThreadPoolExecutor(max_workers=...): a worker is free to take a request *)
HasIdleWorker(busy, workers) == Cardinality(busy) < workers

TakeTask ==
    /\ pc = "probing"
    /\ next_task <= Len(urls_to_check)
    /\ HasIdleWorker(running, max_workers)
    /\ running' = running \cup {next_task}
    /\ next_task' = next_task + 1
    /\ UNCHANGED <<output_file, exit_code, run>>
    /\ UNCHANGED <<soup, max_workers, pc, total_bookmarks, valid_bookmarks,
                   deleted_bookmarks, new_soup, urls_to_check, futures, net_requests,
                   check_results, valid_urls, invalid_links, a_tags, a_idx, iteration,
                   folders, f_idx, empty_folder_count>>

(* results gathered in completion order: the outcome goes to the first free slot *)
SetResultByCompletion(fs, i, r) ==
    LET k == CHOOSE j \in 1..Len(fs) : ~fs[j].done /\ \A m \in 1..(j - 1) : fs[m].done
    IN  [fs EXCEPT ![k] = [done |-> TRUE, url |-> r.url, valid |-> r.valid, raised |-> r.raised]]

(* the future of request i receives the outcome r of its call *)
SetResult(fs, i, r) ==
    [fs EXCEPT ![i] = [done |-> TRUE, url |-> r.url, valid |-> r.valid, raised |-> r.raised]]

CompleteProbe(i, net) ==
    /\ pc = "probing"
    /\ i \in running
    /\ LET r == check_url(urls_to_check[i].url, urls_to_check[i].title, net)
       IN  /\ deleted_bookmarks' = deleted_bookmarks \o r.appended
           /\ net_requests' = IF r.requested
                               THEN net_requests \cup {[req |-> i, url |-> r.url, answer |-> net]}
                               ELSE net_requests
           /\ futures' = SetResult(futures, i, r)
    /\ running' = running \ {i}
    /\ UNCHANGED <<output_file, exit_code, run>>
    /\ UNCHANGED <<soup, max_workers, pc, total_bookmarks, valid_bookmarks, new_soup,
                   urls_to_check, next_task, check_results, valid_urls, invalid_links,
                   a_tags, a_idx, iteration, folders, f_idx, empty_folder_count>>

(* list(executor.map(...)): the results of the futures, in submission order *)
ResultList(fs) == [i \in 1..Len(fs) |-> [url |-> fs[i].url, valid |-> fs[i].valid]]

(* sum(1 for _, is_valid in check_results if is_valid) *)
CountValid(results) == Cardinality({i \in 1..Len(results) : results[i].valid})

(* {url for (url, _, _), (_, is_valid) in zip(urls_to_check, check_results) if is_valid} *)
ValidUrls(reqs, results) ==
    {reqs[i].url : i \in {j \in 1..Len(reqs) : j <= Len(results) /\ results[j].valid}}

(* The with block ends when every future is done. A call that raised makes *)
(* list(...) raise: process_bookmarks logs it and returns soup untouched.  *)
(* results gathered as soon as one future is done *)
AnyDone(fs) == \E i \in 1..Len(fs) : fs[i].done

(* leaving the with block waits for every future of the pool *)
AllDone(fs) == \A i \in 1..Len(fs) : fs[i].done

CollectResults ==
    /\ pc = "probing"
    /\ AllDone(futures)
    /\ IF \E i \in 1..Len(futures) : futures[i].raised
       THEN /\ pc' = "done"
            /\ new_soup' = CopyOf(soup)
            /\ UNCHANGED <<check_results, valid_bookmarks, valid_urls, a_tags>>
       ELSE /\ pc' = "apply"
            /\ check_results' = ResultList(futures)
            /\ valid_bookmarks' = CountValid(ResultList(futures))
            /\ valid_urls' = ValidUrls(urls_to_check, ResultList(futures))
            /\ a_tags' = FindAllA(new_soup)
            /\ UNCHANGED new_soup
    /\ a_idx' = 1
    /\ invalid_links' = 0
    /\ UNCHANGED <<output_file, exit_code, run>>
    /\ UNCHANGED <<soup, max_workers, total_bookmarks, deleted_bookmarks, urls_to_check,
                   next_task, running, futures, net_requests, iteration, folders, f_idx,
                   empty_folder_count>>

----------------------------------------------------------------------------
(* The apply loop: one iteration per <a> of the working copy. *)

(* ('https://' + url) if not url.startswith(('http://', 'https://')) else url *)
url_with_prefix(url) == IF HasHttpPrefix(url) THEN url ELSE [url EXCEPT !.scheme = "https://"]

(* only the raw URL is looked up, the prefixed form is forgotten *)
IsInvalidLinkRawOnly(url, valid) == url \notin valid

(* url not in valid_urls and url_with_prefix not in valid_urls *)
IsInvalidLink(url, valid) == url \notin valid /\ url_with_prefix(url) \notin valid

(* a loop over the live tree: removing an element makes it skip the next one *)
NextIndexSkipping(idx, removed) == IF removed THEN idx + 2 ELSE idx + 1

(* for a_tag in new_soup.find_all('a'): the loop walks a list made before it *)
NextIndex(idx, removed) == idx + 1

ApplyStep ==
    /\ pc = "apply"
    /\ a_idx <= Len(a_tags)
    /\ LET a_tag == a_tags[a_idx]
       IN  IF HasHref(a_tag) /\ IsInvalidLink(soup.href[a_tag], valid_urls)
           THEN /\ new_soup' = Decompose(new_soup, a_tag)
                /\ invalid_links' = invalid_links + 1
           ELSE UNCHANGED <<new_soup, invalid_links>>
    /\ a_idx' = NextIndex(a_idx, new_soup' # new_soup)
    /\ UNCHANGED <<output_file, exit_code, run>>
    /\ UNCHANGED <<soup, max_workers, pc, total_bookmarks, valid_bookmarks,
                   deleted_bookmarks, urls_to_check, next_task, running, futures,
                   net_requests, check_results, valid_urls, a_tags, iteration, folders,
                   f_idx, empty_folder_count>>

(* the loop is over: remove_empty_folders(new_soup) is entered *)
ApplyDone ==
    /\ pc = "apply"
    /\ a_idx > Len(a_tags)
    /\ pc' = "scan"
    /\ iteration' = 0
    /\ empty_folder_count' = 0
    /\ UNCHANGED <<output_file, exit_code, run>>
    /\ UNCHANGED <<soup, max_workers, total_bookmarks, valid_bookmarks, deleted_bookmarks,
                   new_soup, urls_to_check, next_task, running, futures, net_requests,
                   check_results, valid_urls, invalid_links, a_tags, a_idx, folders, f_idx>>

----------------------------------------------------------------------------
(* remove_empty_folders. *)

(* the top-level test comparing against a tag name no parent ever has *)
IsTopLevelWrongTag(dt) == FALSE

(* parent_dl.parent.name == 'body': the <dt> is a child of the main <dl> *)
IsTopLevel(dt) == soup.parent[dt] = 0

(* dt.find('h3') and dt.find('dl') *)
HasH3AndDl(dt) == IsFolder(dt)

(* the folders list of one pass *)
Candidates(t) ==
    SelectSeq(Walk(t, t[0]), LAMBDA dt : ~IsTopLevel(dt) /\ HasH3AndDl(dt))

(* dl.find('a') is not None: a link anywhere below the folder *)
has_links(t, dt) == \E a \in Range(Walk(t, t[dt])) : IsLink(a)

(* any(sub_dt.find('h3') for sub_dt in dl.find_all('dt', recursive=False)) *)
has_subfolders(t, dt) == \E sub_dt \in Range(t[dt]) : IsFolder(sub_dt)

(* the emptiness test without the subfolder check *)
IsEmptyFolderLinksOnly(t, dt) == ~has_links(t, dt)

IsEmptyFolder(t, dt) == ~has_links(t, dt) /\ ~has_subfolders(t, dt)

ScanFolders ==
    /\ pc = "scan"
    /\ folders' = Candidates(new_soup)
    /\ f_idx' = 1
    /\ pc' = IF Len(Candidates(new_soup)) = 0 THEN "done" ELSE "pass"
    /\ UNCHANGED <<output_file, exit_code, run>>
    /\ UNCHANGED <<soup, max_workers, total_bookmarks, valid_bookmarks, deleted_bookmarks,
                   new_soup, urls_to_check, next_task, running, futures, net_requests,
                   check_results, valid_urls, invalid_links, a_tags, a_idx, iteration,
                   empty_folder_count>>

ProcessFolder ==
    /\ pc = "pass"
    /\ f_idx <= Len(folders)
    /\ LET dt == folders[f_idx]
       IN  IF IsEmptyFolder(new_soup, dt)
           THEN /\ new_soup' = Decompose(new_soup, dt)
                /\ empty_folder_count' = empty_folder_count + 1
           ELSE UNCHANGED <<new_soup, empty_folder_count>>
    /\ f_idx' = f_idx + 1
    /\ UNCHANGED <<output_file, exit_code, run>>
    /\ UNCHANGED <<soup, max_workers, pc, total_bookmarks, valid_bookmarks,
                   deleted_bookmarks, urls_to_check, next_task, running, futures,
                   net_requests, check_results, valid_urls, invalid_links, a_tags, a_idx,
                   iteration, folders>>

(* a loop that runs one pass more *)
MorePassesOneMore(passes) == passes <= MaxPasses

(* a loop that runs one pass less *)
MorePassesOneLess(passes) == passes < MaxPasses - 1

(* for iteration in range(3): another pass follows the passes already run *)
MorePasses(passes) == passes < MaxPasses

EndPass ==
    /\ pc = "pass"
    /\ f_idx > Len(folders)
    /\ iteration' = iteration + 1
    /\ pc' = IF MorePasses(iteration + 1) THEN "scan" ELSE "done"
    /\ UNCHANGED <<output_file, exit_code, run>>
    /\ UNCHANGED <<soup, max_workers, total_bookmarks, valid_bookmarks, deleted_bookmarks,
                   new_soup, urls_to_check, next_task, running, futures, net_requests,
                   check_results, valid_urls, invalid_links, a_tags, a_idx, folders, f_idx,
                   empty_folder_count>>

----------------------------------------------------------------------------

Next ==
    \/ CollectLinks
    \/ TakeTask
    \/ \E i \in running, net \in RunOutcomes : CompleteProbe(i, net)
    \/ CollectResults
    \/ ApplyStep
    \/ ApplyDone
    \/ ScanFolders
    \/ ProcessFolder
    \/ EndPass

Spec == Init /\ [][Next]_vars

----------------------------------------------------------------------------
(* The same run on one document shape, an anchor folder holding a          *)
(* subfolder with one link and a second link, with the first link's URL    *)
(* drawn from every URL and every answer of the network.                   *)

ProbeDocuments ==
    {Document(4,
              [kind |-> <<"folder", "folder", "link", "link">>, parent |-> <<0, 1, 2, 1>>],
              <<NoHref, NoHref, u, Url("https://", "", "a.org", "", "")>>) : u \in AllURLs}

ProbeInit ==
    /\ soup \in ProbeDocuments
    /\ max_workers \in 1..MaxWorkers
    /\ pc = "start"
    /\ total_bookmarks = 0
    /\ valid_bookmarks = 0
    /\ deleted_bookmarks = <<>>
    /\ new_soup = NoTree(soup)
    /\ urls_to_check = <<>>
    /\ next_task = 1
    /\ running = {}
    /\ futures = <<>>
    /\ net_requests = {}
    /\ check_results = <<>>
    /\ valid_urls = {}
    /\ invalid_links = 0
    /\ a_tags = <<>>
    /\ a_idx = 1
    /\ iteration = 0
    /\ folders = <<>>
    /\ f_idx = 1
    /\ empty_folder_count = 0
    /\ output_file = NoFile
    /\ exit_code = NotExited
    /\ run = 1

ProbeNext ==
    \/ CollectLinks
    \/ TakeTask
    \/ \E i \in running, net \in NetOutcomes : CompleteProbe(i, net)
    \/ CollectResults
    \/ ApplyStep
    \/ ApplyDone
    \/ ScanFolders
    \/ ProcessFolder
    \/ EndPass

ProbeSpec == ProbeInit /\ [][ProbeNext]_vars

----------------------------------------------------------------------------
(* The same run on deep documents: one anchor folder holding a chain of    *)
(* depth nested folders, optionally a link at the bottom of the chain, and *)
(* a second link directly in the anchor.                                   *)

MaxDepth == 4

DeepShape(depth, bottom) ==
    LET n == depth + 2 + (IF bottom THEN 1 ELSE 0)
    IN  [kind |-> [i \in 1..n |-> IF i <= depth + 1 THEN "folder" ELSE "link"],
         parent |-> [i \in 1..n |-> IF i <= depth + 1 THEN i - 1
                                    ELSE IF bottom /\ i = depth + 2 THEN depth + 1
                                    ELSE 1]]

DeepDocuments ==
    UNION { { Document(Len(sh.kind), sh, hrefs) :
                hrefs \in [LinksOf(Len(sh.kind), sh) -> RunURLs \cup {NoHref}] }
            : sh \in {DeepShape(d, b) : d \in 0..MaxDepth, b \in BOOLEAN} }

(* a LinkTidy instance as __init__ leaves it, for an input out of docs *)
NewInstance(docs, at) ==
    /\ soup \in docs
    /\ max_workers \in 1..MaxWorkers
    /\ pc = at
    /\ total_bookmarks = 0
    /\ valid_bookmarks = 0
    /\ deleted_bookmarks = <<>>
    /\ new_soup = NoTree(soup)
    /\ urls_to_check = <<>>
    /\ next_task = 1
    /\ running = {}
    /\ futures = <<>>
    /\ net_requests = {}
    /\ check_results = <<>>
    /\ valid_urls = {}
    /\ invalid_links = 0
    /\ a_tags = <<>>
    /\ a_idx = 1
    /\ iteration = 0
    /\ folders = <<>>
    /\ f_idx = 1
    /\ empty_folder_count = 0
    /\ output_file = NoFile
    /\ exit_code = NotExited
    /\ run = 1

DeepInit == NewInstance(DeepDocuments, "start")

DeepSpec == DeepInit /\ [][Next]_vars

(* The threads of the pool are scheduled fairly, and a GET returns or      *)
(* raises after timeout seconds at the latest: no step that is possible    *)
(* is put off for ever.                                                    *)
Fairness ==
    /\ WF_vars(CollectLinks)
    /\ WF_vars(TakeTask)
    /\ \A i \in 1..MaxLinks : WF_vars(\E net \in RunOutcomes : CompleteProbe(i, net))
    /\ WF_vars(CollectResults)
    /\ WF_vars(ApplyStep)
    /\ WF_vars(ApplyDone)
    /\ WF_vars(ScanFolders)
    /\ WF_vars(ProcessFolder)
    /\ WF_vars(EndPass)

(* the deep documents of at most 3 elements: up to two links, no chain or  *)
(* a chain of one folder                                                   *)
FairDocuments == {d \in DeepDocuments : d.n <= 3}

FairInit == NewInstance(FairDocuments, "start")

FairSpec == FairInit /\ [][Next]_vars /\ Fairness

----------------------------------------------------------------------------
(* clean_bookmarks and main: the input is read and parsed, the document is *)
(* processed, str(new_soup) is written to the output path and the process  *)
(* ends. The whole body of clean_bookmarks is inside one try whose except  *)
(* clause logs the exception; main calls no sys.exit.                      *)

(* the exit status of an interpreter whose main() returned *)
ExitNormally == 0

(* open(input_file) and BeautifulSoup(content, PARSER) succeeded *)
ReadInput ==
    /\ pc = "read"
    /\ pc' = "start"
    /\ UNCHANGED <<output_file, exit_code, run>>
    /\ UNCHANGED <<soup, max_workers, total_bookmarks, valid_bookmarks, deleted_bookmarks,
                   new_soup, urls_to_check, next_task, running, futures, net_requests,
                   check_results, valid_urls, invalid_links, a_tags, a_idx, iteration,
                   folders, f_idx, empty_folder_count>>

(* open or the parser raised: except Exception logs the error, the call   *)
(* returns None, main returns                                              *)
ReadFails ==
    /\ pc = "read"
    /\ pc' = "failed"
    /\ exit_code' = ExitNormally
    /\ UNCHANGED <<output_file, run>>
    /\ UNCHANGED <<soup, max_workers, total_bookmarks, valid_bookmarks, deleted_bookmarks,
                   new_soup, urls_to_check, next_task, running, futures, net_requests,
                   check_results, valid_urls, invalid_links, a_tags, a_idx, iteration,
                   folders, f_idx, empty_folder_count>>

(* str(new_soup), as a parser reads it back: the elements of the tree in   *)
(* document order, numbered from 1                                         *)
Serialize(t) ==
    LET P == Walk(t, t[0])
        Pos(x) == CHOOSE k \in 1..Len(P) : P[k] = x
    IN  [n |-> Len(P),
         kind |-> [k \in 1..Len(P) |-> soup.kind[P[k]]],
         parent |-> [k \in 1..Len(P) |->
                        IF soup.parent[P[k]] = 0 THEN 0 ELSE Pos(soup.parent[P[k]])],
         href |-> [k \in 1..Len(P) |-> soup.href[P[k]]],
         title |-> [k \in 1..Len(P) |-> soup.title[P[k]]]]

(* f.write(str(new_soup)), the statistics are logged, main returns *)
WriteOutput ==
    /\ pc = "done"
    /\ output_file' = Serialize(new_soup)
    /\ pc' = "exit"
    /\ exit_code' = ExitNormally
    /\ UNCHANGED run
    /\ UNCHANGED <<soup, max_workers, total_bookmarks, valid_bookmarks, deleted_bookmarks,
                   new_soup, urls_to_check, next_task, running, futures, net_requests,
                   check_results, valid_urls, invalid_links, a_tags, a_idx, iteration,
                   folders, f_idx, empty_folder_count>>

CleanInit == NewInstance(DeepDocuments, "read")

CleanNext ==
    \/ ReadInput
    \/ ReadFails
    \/ Next
    \/ WriteOutput

CleanSpec == CleanInit /\ [][CleanNext]_vars

----------------------------------------------------------------------------
(* The program invoked again on the file it wrote, against a network that  *)
(* gives a URL the same verdict whenever it is probed.                     *)

MaxRuns == 2

(* the answer gives request i's URL the verdict every earlier GET of that  *)
(* URL got                                                                 *)
SameVerdict(i, net) ==
    LET url == urls_to_check[i].url
    IN  \A e \in net_requests :
            e.url = AddPrefix(url) =>
                check_url(url, 0, e.answer).valid = check_url(url, 0, net).valid

(* a new process and a new LinkTidy instance, its input the written file *)
Rerun ==
    /\ pc = "exit"
    /\ run < MaxRuns
    /\ run' = run + 1
    /\ soup' = output_file
    /\ pc' = "read"
    /\ exit_code' = NotExited
    /\ total_bookmarks' = 0
    /\ valid_bookmarks' = 0
    /\ deleted_bookmarks' = <<>>
    /\ new_soup' = NoTree(output_file)
    /\ urls_to_check' = <<>>
    /\ next_task' = 1
    /\ running' = {}
    /\ futures' = <<>>
    /\ check_results' = <<>>
    /\ valid_urls' = {}
    /\ invalid_links' = 0
    /\ a_tags' = <<>>
    /\ a_idx' = 1
    /\ iteration' = 0
    /\ folders' = <<>>
    /\ f_idx' = 1
    /\ empty_folder_count' = 0
    /\ UNCHANGED <<max_workers, net_requests, output_file>>

TwiceNext ==
    \/ ReadInput
    \/ ReadFails
    \/ CollectLinks
    \/ TakeTask
    \/ \E i \in running, net \in RunOutcomes : SameVerdict(i, net) /\ CompleteProbe(i, net)
    \/ CollectResults
    \/ ApplyStep
    \/ ApplyDone
    \/ ScanFolders
    \/ ProcessFolder
    \/ EndPass
    \/ WriteOutput
    \/ Rerun

TwiceSpec == CleanInit /\ [][TwiceNext]_vars

----------------------------------------------------------------------------
(* Properties. *)

Nodes == 1..soup.n

(* n is an element of the tree t *)
RECURSIVE Present(_, _)
Present(t, n) ==
    \E c \in DOMAIN t :
        /\ n \in Range(t[c])
        /\ c = 0 \/ Present(t, c)

(* the pool has finished and its results were gathered *)
Gathered == pc \in {"apply", "scan", "pass", "done"} /\ urls_to_check # <<>>

(* the network answered request i with a status in [200, 400) *)
AnsweredOk(i) ==
    \E e \in net_requests :
        e.req = i /\ e.answer.exc = "None" /\ 200 <= e.answer.status /\ e.answer.status < 400

(* url as check_url rewrites it *)
Prefixed(url) == IF url.scheme = "" THEN [url EXCEPT !.scheme = "https://"] ELSE url

(* C1: for every worker count and completion order, the gathered results   *)
(* are as many as the requests, and result i is the verdict of request i:  *)
(* it carries request i's URL (prefixed) and is valid exactly when the     *)
(* network answered request i's GET with a status in [200, 400).           *)
C1_ResultsInRequestOrder ==
    Gathered =>
        /\ Len(check_results) = Len(urls_to_check)
        /\ \A i \in 1..Len(urls_to_check) :
              /\ check_results[i].url = Prefixed(urls_to_check[i].url)
              /\ check_results[i].valid <=> AnsweredOk(i)

(* two workers, two requests for different URLs, the second completed first *)
C1_Witness ==
    /\ Gathered
    /\ max_workers >= 2
    /\ Len(check_results) >= 2
    /\ check_results[1].url # check_results[2].url
    /\ Len(deleted_bookmarks) >= 2
    /\ deleted_bookmarks[1].title = urls_to_check[2].title
    /\ deleted_bookmarks[2].title = urls_to_check[1].title

(* C2: an anchor folder (a folder that is a child of the main <dl>) is in  *)
(* the tree in every state of the apply loop and of every compaction pass, *)
(* also when it is left without children.                                  *)
C2_AnchorsNeverRemoved ==
    pc # "start" =>
        \A n \in Nodes :
            soup.kind[n] = "folder" /\ soup.parent[n] = 0 => n \in Range(new_soup[0])

(* compaction has run over an anchor folder that lost all its children *)
C2_Witness ==
    /\ pc = "done"
    /\ iteration >= 1
    /\ \E n \in Nodes :
          /\ soup.kind[n] = "folder" /\ soup.parent[n] = 0
          /\ \E m \in Nodes : soup.parent[m] = n
          /\ n \in Range(new_soup[0])
          /\ new_soup[n] = <<>>

(* C3: a step that takes a folder out of the tree finds it with zero       *)
(* children: no link and no subfolder.                                     *)
C3_RemovedOnlyWhenEmpty ==
    [][\A n \in Nodes :
          (soup.kind[n] = "folder" /\ Present(new_soup, n) /\ ~Present(new_soup, n)')
              => new_soup[n] = <<>>]_vars

(* a later pass removed a folder that an earlier pass had emptied *)
C3_Witness ==
    /\ pc = "pass"
    /\ iteration >= 1
    /\ empty_folder_count >= 2

(* the request made for link n, and the verdict gathered for it *)
RequestOf(n) == CHOOSE i \in 1..Len(urls_to_check) : urls_to_check[i].node = n
VerdictOf(n) == check_results[RequestOf(n)]

ChildrenIn(doc, c) == {m \in 1..doc.n : doc.parent[m] = c}

(* C4: after the run, every non-anchor folder whose children were all      *)
(* links that received an invalid verdict is absent from the output tree.  *)
C4_InvalidOnlyFoldersRemoved ==
    pc = "done" =>
        \A f \in Nodes :
            ( /\ soup.kind[f] = "folder" /\ soup.parent[f] # 0
              /\ ChildrenIn(soup, f) # {}
              /\ \A m \in ChildrenIn(soup, f) :
                    /\ soup.kind[m] = "link" /\ soup.href[m] # NoHref
                    /\ ~VerdictOf(m).valid )
            => ~Present(new_soup, f)

(* C5: after the run, every link whose host is 127.0.0.1, a 10.x or        *)
(* 192.168.x address or contains localhost is absent from the output tree, *)
(* and no GET was issued for it.                                           *)
C5_UnsafeHostsRemoved ==
    pc = "done" =>
        \A n \in Nodes :
            (soup.kind[n] = "link" /\ soup.href[n] # NoHref /\ soup.href[n].host \in UnsafeHosts)
            => /\ ~Present(new_soup, n)
               /\ ~\E e \in net_requests : e.req = RequestOf(n)

(* The same for the links whose URL carries no userinfo before the host.   *)
UnsafeHostsWithoutUserinfoRemoved ==
    pc = "done" =>
        \A n \in Nodes :
            ( /\ soup.kind[n] = "link" /\ soup.href[n] # NoHref
              /\ soup.href[n].host \in UnsafeHosts /\ soup.href[n].userinfo = "" )
            => /\ ~Present(new_soup, n)
               /\ ~\E e \in net_requests : e.req = RequestOf(n)

(* C6: check_url never leaves by an exception, whatever the URL and the    *)
(* answer of the network, and its verdict is valid only when the GET was   *)
(* answered with a status in [200, 400); so the run is never cut short:    *)
(* at its end every request has a result and the apply loop has run over   *)
(* every link, leaving only links whose URL has a valid verdict.           *)
C6_ProbeNeverRaises ==
    /\ \A i \in 1..Len(futures) :
          futures[i].done => /\ ~futures[i].raised
                             /\ futures[i].valid => AnsweredOk(i)
    /\ (pc = "done" /\ urls_to_check # <<>>) =>
          /\ Len(check_results) = Len(urls_to_check)
          /\ a_idx > Len(a_tags)
          /\ \A n \in Nodes :
                (soup.kind[n] = "link" /\ soup.href[n] # NoHref /\ Present(new_soup, n))
                => \E j \in 1..Len(check_results) :
                      /\ check_results[j].valid
                      /\ urls_to_check[j].url \in {soup.href[n], Prefixed(soup.href[n])}

(* one probe failed with an unclassified exception, the other link was     *)
(* still probed and kept, and the emptied subfolder was pruned             *)
C6_Witness ==
    /\ pc = "done"
    /\ \E k \in 1..Len(deleted_bookmarks) : deleted_bookmarks[k].reason.tag = "Unexpected"
    /\ \E e \in net_requests : e.answer.exc = "ProtocolError"
    /\ Len(check_results) = 2 /\ check_results[2].valid
    /\ new_soup[1] = <<4>>

(* a step in which a check_url call returns its verdict to the pool *)
ProbeReturns == pc = "probing" /\ futures' # futures

(* C7 as stated: a probe leaves the report, the counters and the tree      *)
(* unchanged and hands its outcome over only in the returned verdict.      *)
C7_ProbeMutatesNothing ==
    [][ProbeReturns =>
          UNCHANGED <<deleted_bookmarks, total_bookmarks, valid_bookmarks, new_soup>>]_vars

(* C7, amended: a probe leaves the counters and the tree unchanged; the    *)
(* one piece of shared state it mutates is the report, to which it appends *)
(* exactly one record, carrying its request's title and its verdict's URL, *)
(* when its verdict is invalid, and nothing when its verdict is valid.     *)
C7_ProbeOnlyAppendsItsRecord ==
    [][ProbeReturns =>
          /\ UNCHANGED <<total_bookmarks, valid_bookmarks, new_soup, invalid_links>>
          /\ \A i \in 1..Len(futures) :
                (~futures[i].done /\ futures'[i].done) =>
                    IF futures'[i].valid
                    THEN deleted_bookmarks' = deleted_bookmarks
                    ELSE /\ Len(deleted_bookmarks') = Len(deleted_bookmarks) + 1
                         /\ SubSeq(deleted_bookmarks', 1, Len(deleted_bookmarks)) = deleted_bookmarks
                         /\ deleted_bookmarks'[Len(deleted_bookmarks')].title = urls_to_check[i].title
                         /\ deleted_bookmarks'[Len(deleted_bookmarks')].url = futures'[i].url
                         /\ deleted_bookmarks'[Len(deleted_bookmarks')].reason.tag # "None"]_vars

(* a probe has appended its record while another probe is still running *)
C7_Witness ==
    /\ pc = "probing"
    /\ running # {}
    /\ Len(deleted_bookmarks) >= 1
    /\ \E i \in 1..Len(futures) : futures[i].done /\ ~futures[i].valid
    /\ \E e \in net_requests : e.answer.exc = "ReadTimeout"

(* C8: after the run the number of DeletionRecords equals the number of    *)
(* link nodes removed from the tree: records + remaining links = total.    *)
C8_RecordsEqualRemovedLinks ==
    pc = "done" =>
        Len(deleted_bookmarks)
            + Cardinality({n \in Nodes : soup.kind[n] = "link" /\ Present(new_soup, n)})
        = total_bookmarks

(* C9: the tree only loses elements: in every container the children still *)
(* there are children it had in the input, in their original order, so     *)
(* the links of the output are at most those of the input.                 *)
C9_DeletionsOnly ==
    pc # "start" =>
        /\ \A c \in DOMAIN new_soup :
              /\ \A k \in 1..Len(new_soup[c]) : soup.parent[new_soup[c][k]] = c
              /\ \A j, k \in 1..Len(new_soup[c]) : j < k => new_soup[c][j] < new_soup[c][k]
        /\ Cardinality({n \in Nodes : soup.kind[n] = "link" /\ Present(new_soup, n)})
              <= total_bookmarks

(* a container lost its first child and keeps two later ones *)
C9_Witness ==
    /\ pc = "done"
    /\ \E c \in DOMAIN new_soup :
          /\ Len(new_soup[c]) >= 2
          /\ \E m \in Nodes : soup.parent[m] = c /\ m < new_soup[c][1]

(* C10: for every link the apply loop removed there is a DeletionRecord    *)
(* with a reason whose url is the link's URL after the https:// prefix     *)
(* rule.                                                                   *)
C10_RemovedLinksExplained ==
    Gathered =>
        \A n \in Nodes :
            (soup.kind[n] = "link" /\ soup.href[n] # NoHref /\ ~Present(new_soup, n))
            => \E k \in 1..Len(deleted_bookmarks) :
                  /\ deleted_bookmarks[k].url = Prefixed(soup.href[n])
                  /\ deleted_bookmarks[k].reason.tag # "None"

(* a link whose href lacks the prefix was removed after a failed GET *)
C10_Witness ==
    /\ pc = "done"
    /\ \E n \in Nodes :
          /\ soup.kind[n] = "link" /\ soup.href[n] # NoHref
          /\ soup.href[n].scheme = ""
          /\ ~Present(new_soup, n)
          /\ \E e \in net_requests : e.req = RequestOf(n) /\ e.answer.exc = "ReadTimeout"

----------------------------------------------------------------------------
(* the apply loop has walked every <a> of the working copy *)
Applied == pc \in {"scan", "pass", "done"} /\ urls_to_check # <<>>

(* the raw URLs of the requests whose verdict is valid *)
ValidVerdictUrls ==
    {urls_to_check[i].url : i \in {j \in 1..Len(urls_to_check) : check_results[j].valid}}

(* C11: after the apply phase a link with a URL is in the tree exactly     *)
(* when its raw URL or its "https://"-prefixed form is among the raw URLs  *)
(* of the requests that received a valid verdict; every other link with a  *)
(* URL has been removed.                                                   *)
C11_KeptIffRawOrPrefixedValid ==
    Applied =>
        \A n \in Nodes :
            (soup.kind[n] = "link" /\ soup.href[n] # NoHref) =>
                ( Present(new_soup, n) <=>
                    \/ soup.href[n] \in ValidVerdictUrls
                    \/ Prefixed(soup.href[n]) \in ValidVerdictUrls )

(* a link whose own probe failed is kept because another link, with the    *)
(* prefixed form of its URL, was probed valid                              *)
C11_Witness ==
    /\ Applied
    /\ \E n \in Nodes :
          /\ soup.kind[n] = "link" /\ soup.href[n] # NoHref
          /\ ~VerdictOf(n).valid
          /\ Prefixed(soup.href[n]) \in ValidVerdictUrls
          /\ Present(new_soup, n)

----------------------------------------------------------------------------
(* the links of a document, in document order, as title and URL *)
LinkList(doc) ==
    LET idx == SelectSeq([k \in 1..doc.n |-> k], LAMBDA k : doc.kind[k] = "link")
    IN  [j \in 1..Len(idx) |-> <<doc.title[idx[j]], doc.href[idx[j]]>>]

(* the folders of a document that are no anchors and hold nothing *)
EmptyNonAnchorFolders(doc) ==
    {f \in 1..doc.n :
        doc.kind[f] = "folder" /\ doc.parent[f] # 0 /\ ChildrenIn(doc, f) = {}}

(* a later invocation, run on the file the one before wrote, has ended *)
RerunEnded == run >= 2 /\ pc = "exit"

(* C12 as stated: when every URL gets the same verdict in both runs, a     *)
(* clean of the output of a previous clean removes nothing, neither a     *)
(* link nor a folder: the second output is the first.                      *)
C12_SecondRunRemovesNothing == RerunEnded => output_file = soup

(* C12, amended: when every URL gets the same verdict in both runs, a      *)
(* clean of the output of a previous clean removes no link, and it removes *)
(* no folder either unless that output still held an empty non-anchor      *)
(* folder, left behind by the 3-pass cap of the first compaction.          *)
C12_SecondRunKeepsLinks ==
    RerunEnded =>
        /\ LinkList(output_file) = LinkList(soup)
        /\ EmptyNonAnchorFolders(soup) = {} => output_file = soup

(* the first run removed an element, the second run probed a link and      *)
(* wrote the document it had read                                          *)
C12_Witness ==
    /\ RerunEnded
    /\ \E k \in 1..soup.n : soup.title[k] # k
    /\ total_bookmarks >= 1
    /\ output_file = soup

----------------------------------------------------------------------------
(* no request waits for a worker, no worker executes one, every future is  *)
(* done and its result was gathered                                        *)
PoolFinished ==
    /\ next_task > Len(urls_to_check)
    /\ running = {}
    /\ \A i \in 1..Len(urls_to_check) : futures[i].done
    /\ Len(check_results) = Len(urls_to_check)

(* C13: no element is removed from the working copy while a probe is       *)
(* waiting or running: at every step that changes the tree the pool has    *)
(* finished and every link with a URL has exactly one verdict, so the tree *)
(* is mutated by the main thread alone.                                    *)
C13_MutationOnlyAfterPool ==
    [][ (pc # "start" /\ new_soup' # new_soup) =>
            /\ PoolFinished
            /\ \A n \in Nodes :
                  (soup.kind[n] = "link" /\ soup.href[n] # NoHref) =>
                      Cardinality({i \in 1..Len(check_results) :
                                      urls_to_check[i].node = n}) = 1 ]_vars

(* two workers probed two requests and the apply loop removed a link *)
C13_Witness ==
    /\ pc = "apply"
    /\ invalid_links >= 1
    /\ max_workers = 2
    /\ Len(urls_to_check) = 2

----------------------------------------------------------------------------
(* C14: at any instant at most max_workers probes are in flight, and each  *)
(* request is probed by one check_url call: a request is waiting, or with  *)
(* one worker, or done, it made at most one GET and left at most one       *)
(* record.                                                                 *)
C14_AtMostWInFlight ==
    /\ Cardinality(running) <= max_workers
    /\ running \subseteq 1..Len(urls_to_check)
    /\ \A i \in 1..Len(urls_to_check) :
          /\ i >= next_task => (i \notin running /\ ~futures[i].done)
          /\ i < next_task => (i \in running <=> ~futures[i].done)
          /\ Cardinality({e \in net_requests : e.req = i}) <= 1
          /\ Cardinality({k \in 1..Len(deleted_bookmarks) :
                            deleted_bookmarks[k].title = urls_to_check[i].title}) <= 1

(* every worker of the pool is busy and a request waits for a free worker *)
C14_Witness ==
    /\ pc = "probing"
    /\ Cardinality(running) = max_workers
    /\ next_task <= Len(urls_to_check)

----------------------------------------------------------------------------
(* What holds of the exits in the code: a run whose input could not be     *)
(* read writes no output, a run that read its input writes one and its     *)
(* report holds a record for every failed probe; both end with status 0.   *)
ExitsAsCoded ==
    /\ pc = "failed" => (output_file = NoFile /\ exit_code = ExitNormally)
    /\ pc = "exit" =>
          /\ exit_code = ExitNormally
          /\ output_file # NoFile
          /\ (\E i \in 1..Len(check_results) : ~check_results[i].valid)
                => deleted_bookmarks # <<>>

(* C15: when the input cannot be read or parsed the run aborts, the        *)
(* process exits with a non-zero status and no output is written; when     *)
(* only some links fail to probe the run ends with exit status 0, an       *)
(* output and a populated report.                                          *)
C15_ReadFailureExitsNonZero ==
    /\ pc = "failed" => (exit_code # 0 /\ output_file = NoFile)
    /\ pc = "exit" =>
          /\ exit_code = 0
          /\ output_file # NoFile
          /\ (\E i \in 1..Len(check_results) : ~check_results[i].valid)
                => deleted_bookmarks # <<>>

----------------------------------------------------------------------------
(* the folders of the working copy that are no anchors *)
NonAnchorFolders ==
    {f \in Nodes : soup.kind[f] = "folder" /\ soup.parent[f] # 0 /\ Present(new_soup, f)}

(* a pass has run and every folder it looked at is still in the tree *)
LastPassRemovedNothing ==
    iteration >= 1 /\ \A f \in Range(folders) : Present(new_soup, f)

(* C16 as stated: compaction runs at most 3 passes and stops early once a  *)
(* pass removes nothing: no pass is started after a pass that removed no   *)
(* folder.                                                                 *)
C16_NoPassAfterIdlePass ==
    [][ (pc = "scan" /\ pc' = "pass") =>
            (iteration < 3 /\ ~LastPassRemovedNothing) ]_vars

(* C16, amended: compaction runs at most 3 passes, and before the third    *)
(* it stops only when a scan finds no non-anchor folder in the tree; a     *)
(* pass that removed nothing is followed by the next pass as long as a     *)
(* non-anchor folder exists.                                               *)
C16_StopsOnlyWithoutCandidates ==
    [][ pc = "scan" =>
            /\ iteration < 3
            /\ pc' = "pass" <=> NonAnchorFolders # {}
            /\ pc' = "done" <=> NonAnchorFolders = {} ]_vars

(* the third pass runs although the first two removed nothing *)
C16_Witness ==
    /\ pc = "pass"
    /\ iteration = 2
    /\ empty_folder_count = 0

----------------------------------------------------------------------------
(* the records of the report that carry the title of request i *)
RecordsOf(i) ==
    {k \in 1..Len(deleted_bookmarks) : deleted_bookmarks[k].title = urls_to_check[i].title}

(* the check that settles a URL when the checks run in the order           *)
(* format, unsafe target, prohibited content, network                      *)
SettledBy(url, unsafe) ==
    IF ~HasSchemeAndNetloc(url) THEN "InvalidFormat"
    ELSE IF unsafe THEN "UnsafeTarget"
    ELSE IF ContainsKeyword(url) THEN "ProhibitedContent"
    ELSE "Network"

(* request i, done, was settled by the check named by step: a rejection    *)
(* by one of the first three checks made no GET and left one record with   *)
(* that reason; the network check made one GET and left one record if the  *)
(* verdict is invalid, none if it is valid                                 *)
SettledAs(i, step) ==
    IF step = "Network"
    THEN /\ \E e \in net_requests : e.req = i
         /\ Cardinality(RecordsOf(i)) = IF futures[i].valid THEN 0 ELSE 1
    ELSE /\ ~\E e \in net_requests : e.req = i
         /\ ~futures[i].valid
         /\ Cardinality(RecordsOf(i)) = 1
         /\ \A k \in RecordsOf(i) : deleted_bookmarks[k].reason.tag = step

(* C17: check_url checks in the order invalid format, unsafe target,       *)
(* prohibited content, network; a URL whose host is unsafe and whose text  *)
(* is prohibited is rejected as unsafe, a rejection by one of the first    *)
(* three checks makes no network request, and a rejected URL gets exactly  *)
(* one reason.                                                             *)
C17_CheckOrder ==
    \A i \in 1..Len(futures) :
        LET url == Prefixed(urls_to_check[i].url)
        IN  (futures[i].done /\ ~ParseRaises(url)) =>
                SettledAs(i, SettledBy(url, url.host \in UnsafeHosts))

(* The same with the unsafe URLs taken to be those the code recognises on  *)
(* the host it extracts, userinfo included.                                *)
CheckOrderOnExtractedHost ==
    \A i \in 1..Len(futures) :
        LET url == Prefixed(urls_to_check[i].url)
        IN  (futures[i].done /\ ~ParseRaises(url)) =>
                SettledAs(i, SettledBy(url, _is_unsafe_domain(Domain(url))))

----------------------------------------------------------------------------
(* folder f had no link below it when remove_empty_folders was entered:    *)
(* compaction removes no link, so the links then are the links now         *)
LinkFree(f) ==
    /\ soup.kind[f] = "folder"
    /\ ~\E m \in Nodes :
          soup.kind[m] = "link" /\ Present(new_soup, m) /\ f \in AncOrSelf(soup.parent, m)

(* the length of the longest chain of nested folders that starts at f *)
RECURSIVE ChainLength(_)
ChainLength(f) ==
    LET sub == {c \in ChildrenIn(soup, f) : soup.kind[c] = "folder"}
    IN  IF sub = {} THEN 1
        ELSE 1 + ChainLength(CHOOSE c \in sub : \A d \in sub : ChainLength(d) <= ChainLength(c))

(* every chain of nested link-less non-anchor folders has at most 3 folders *)
ChainsAtMostThree ==
    \A f \in Nodes : (LinkFree(f) /\ soup.parent[f] # 0) => ChainLength(f) <= 3

(* remove_empty_folders was called and has returned *)
Compacted == pc = "done" /\ urls_to_check # <<>>

(* the non-anchor folders of the working copy that hold nothing *)
EmptyFoldersLeft == {f \in NonAnchorFolders : new_soup[f] = <<>>}

(* C18: on a tree whose chains of nested non-anchor folders without a link *)
(* below them have length at most 3, remove_empty_folders reaches the      *)
(* fixed point: when it returns no empty non-anchor folder is left.        *)
C18_FixedPointWithinThreeLevels ==
    (Compacted /\ ChainsAtMostThree) => EmptyFoldersLeft = {}

(* a chain of three nested folders lost its only link and was removed, one *)
(* level per pass                                                          *)
C18_Witness ==
    /\ Compacted
    /\ ChainsAtMostThree
    /\ empty_folder_count = 3
    /\ iteration = 3
    /\ invalid_links = 1

----------------------------------------------------------------------------
(* while the pool runs, a free worker can take the next waiting request    *)
(* and every probe in flight can complete, whatever the other workers do   *)
OthersProceed ==
    pc = "probing" =>
        /\ (next_task <= Len(urls_to_check) /\ Cardinality(running) < max_workers)
              => ENABLED TakeTask
        /\ \A i \in running : ENABLED (\E net \in RunOutcomes : CompleteProbe(i, net))

(* every request has its verdict *)
AllVerdictsIn ==
    /\ Len(futures) = Len(urls_to_check)
    /\ \A i \in 1..Len(futures) : futures[i].done

(* C19: under fair scheduling of the workers, with every GET returning or  *)
(* timing out, every request taken by a worker gets its verdict, the run   *)
(* leaves the probe phase for the apply phase with every verdict in, and   *)
(* it terminates; a probe that is still in flight never keeps a free       *)
(* worker from taking the next request nor another probe from completing.  *)
C19_ProbingTerminates ==
    /\ []OthersProceed
    /\ \A i \in 1..MaxLinks :
          (i \in running) ~> (i \notin running /\ i <= Len(futures) /\ futures[i].done)
    /\ (pc = "probing") ~> (pc = "apply" /\ AllVerdictsIn)
    /\ <>(pc = "done")

(* with two workers, the second request got its verdict while the probe of *)
(* the first is still in flight                                            *)
C19_Witness ==
    /\ pc = "probing"
    /\ max_workers = 2
    /\ running = {1}
    /\ Len(futures) = 2
    /\ futures[2].done

----------------------------------------------------------------------------
(* C20: for every worker count and interleaving, when the pool has         *)
(* finished the report holds exactly one record for every request with an  *)
(* invalid verdict and none for a request with a valid verdict, so         *)
(* valid_bookmarks plus the number of records is the number of probed      *)
(* links; only the order of the records depends on the interleaving.       *)
C20_OneRecordPerInvalidRequest ==
    Gathered =>
        /\ \A i \in 1..Len(urls_to_check) :
              Cardinality(RecordsOf(i)) = IF check_results[i].valid THEN 0 ELSE 1
        /\ \A k \in 1..Len(deleted_bookmarks) :
              \E i \in 1..Len(urls_to_check) : k \in RecordsOf(i)
        /\ valid_bookmarks + Len(deleted_bookmarks) = Len(urls_to_check)

(* two workers probed a valid and an invalid request at the same time; the *)
(* report holds the one record                                             *)
C20_Witness ==
    /\ Gathered
    /\ max_workers = 2
    /\ valid_bookmarks = 1
    /\ Len(deleted_bookmarks) = 1
    /\ \E e \in net_requests : e.req = 1 /\ e.answer.exc = "ReadTimeout"
    /\ \E e \in net_requests : e.req = 2 /\ e.answer.exc = "None"

----------------------------------------------------------------------------
(* the links of the input that carry a URL *)
UrlLinks == {n \in Nodes : soup.kind[n] = "link" /\ soup.href[n] # NoHref}

(* C21: removal is decided per URL: after the apply phase two links with   *)
(* the same raw URL are both in the tree or both removed, also when their  *)
(* two probes returned different verdicts, and both are kept as soon as    *)
(* one of the two verdicts is valid.                                       *)
C21_SameUrlSameFate ==
    Applied =>
        \A n, m \in UrlLinks :
            soup.href[n] = soup.href[m] =>
                /\ Present(new_soup, n) <=> Present(new_soup, m)
                /\ (VerdictOf(n).valid \/ VerdictOf(m).valid)
                      => (Present(new_soup, n) /\ Present(new_soup, m))

(* two links with one raw URL, the probe of the first failed, the probe of *)
(* the second was valid, and both links are in the tree                    *)
C21_Witness ==
    /\ Applied
    /\ \E n, m \in UrlLinks :
          /\ n < m
          /\ soup.href[n] = soup.href[m]
          /\ ~VerdictOf(n).valid
          /\ VerdictOf(m).valid
          /\ Present(new_soup, n)
          /\ Present(new_soup, m)

----------------------------------------------------------------------------
(* process_bookmarks has collected the links and found none with a URL *)
NothingToProbe == pc \notin {"read", "start", "failed"} /\ urls_to_check = <<>>

(* neither the probe phase, nor the apply loop, nor compaction was entered, *)
(* the working copy holds every element of the input and the report is     *)
(* empty                                                                   *)
CompactionSkipped ==
    /\ pc \in {"done", "exit"}
    /\ iteration = 0
    /\ empty_folder_count = 0
    /\ invalid_links = 0
    /\ \A n \in Nodes : Present(new_soup, n)
    /\ deleted_bookmarks = <<>>

(* C22 as stated: when no link with a URL is collected, process_bookmarks  *)
(* skips compaction: the returned tree has the folders of the input, also  *)
(* the non-anchor folders without children, and no record and no counter   *)
(* is changed.                                                             *)
C22_NothingChanged ==
    NothingToProbe =>
        /\ CompactionSkipped
        /\ valid_bookmarks = 0
        /\ total_bookmarks = 0

(* C22, amended: when no link with a URL is collected, process_bookmarks   *)
(* skips compaction: the returned tree has every element of the input,     *)
(* also the non-anchor folders without children, no record is added and    *)
(* valid_bookmarks stays 0; total_bookmarks is set to the number of <a>    *)
(* elements, the links without href.                                       *)
C22_OnlyTotalChanged ==
    NothingToProbe =>
        /\ CompactionSkipped
        /\ valid_bookmarks = 0
        /\ total_bookmarks = Cardinality({n \in Nodes : soup.kind[n] = "link"})

(* a document with a link without href and an empty non-anchor folder: the *)
(* folder is returned, total_bookmarks counts the link                     *)
C22_Witness ==
    /\ NothingToProbe
    /\ pc = "done"
    /\ total_bookmarks >= 1
    /\ \E f \in Nodes :
          /\ soup.kind[f] = "folder" /\ soup.parent[f] # 0
          /\ ChildrenIn(soup, f) = {}
          /\ Present(new_soup, f)
============================================================================
